---------------------------- MODULE Spec2Model ----------------------------
(***************************************************************************)
(* Model of mac_lookup.py: the MacAddressIO lookup client and the command  *)
(* line driver around it.  Python strings are sequences of one-character   *)
(* strings, so that split, strip, upper, lower, len and the regular        *)
(* expression are computed character by character.                         *)
(***************************************************************************)
EXTENDS Integers, Sequences, FiniteSets, TLC

\* ------------------------------------------------------------------ bounds
\* Largest number of comma separated entries in a --mac value.
MaxEntries == 2
\* Largest number of keys in a vendorDetails object of a reply.
MaxKeys == 2
\* Longest string handed to validate_mac in SpecValidate.
MaxLen == 18

\* ------------------------------------------------------------- characters
\* ASCII codes of the characters the model uses.
Ord ==
  [c \in {"0", "1", "2", "3", "4", "5", "6", "7", "8", "9"} |->
     CASE c = "0" -> 48 [] c = "1" -> 49 [] c = "2" -> 50 [] c = "3" -> 51
       [] c = "4" -> 52 [] c = "5" -> 53 [] c = "6" -> 54 [] c = "7" -> 55
       [] c = "8" -> 56 [] c = "9" -> 57]
  @@ [c \in {"A", "B", "C", "D", "E", "F", "G", "M", "N", "O", "P", "Y"} |->
     CASE c = "A" -> 65 [] c = "B" -> 66 [] c = "C" -> 67 [] c = "D" -> 68
       [] c = "E" -> 69 [] c = "F" -> 70 [] c = "G" -> 71 [] c = "M" -> 77
       [] c = "N" -> 78 [] c = "O" -> 79 [] c = "P" -> 80 [] c = "Y" -> 89]
  @@ [c \in {"a", "b", "c", "d", "e", "f", "g", "m", "n", "o", "p", "y"} |->
     CASE c = "a" -> 97 [] c = "b" -> 98 [] c = "c" -> 99 [] c = "d" -> 100
       [] c = "e" -> 101 [] c = "f" -> 102 [] c = "g" -> 103 [] c = "m" -> 109
       [] c = "n" -> 110 [] c = "o" -> 111 [] c = "p" -> 112 [] c = "y" -> 121]
  @@ [c \in {" ", "\t", "\n", ",", "-", ".", "/", ":", "@"} |->
     CASE c = " " -> 32 [] c = "\t" -> 9 [] c = "\n" -> 10 [] c = "," -> 44
       [] c = "-" -> 45 [] c = "." -> 46 [] c = "/" -> 47 [] c = ":" -> 58
       [] c = "@" -> 64]

Alphabet == DOMAIN Ord

Chr(n) == CHOOSE c \in Alphabet : Ord[c] = n

\* str.upper / str.lower on one character: ASCII letters move by 32.
upper_char(c) == IF Ord[c] >= 97 /\ Ord[c] <= 122 THEN Chr(Ord[c] - 32) ELSE c

lower_char(c) == IF Ord[c] >= 65 /\ Ord[c] <= 90 THEN Chr(Ord[c] + 32) ELSE c

str_upper(s) == [i \in 1..Len(s) |-> upper_char(s[i])]

str_lower(s) == [i \in 1..Len(s) |-> lower_char(s[i])]

\* str.isspace for the characters of the alphabet.
Whitespace == {" ", "\t", "\n"}

\* str.strip(): drop leading and trailing whitespace.
RECURSIVE lstrip(_)
lstrip(s) == IF s # <<>> /\ Head(s) \in Whitespace THEN lstrip(Tail(s)) ELSE s

RECURSIVE rstrip(_)
rstrip(s) ==
  IF s # <<>> /\ s[Len(s)] \in Whitespace
  THEN rstrip(SubSeq(s, 1, Len(s) - 1))
  ELSE s

strip(s) == rstrip(lstrip(s))

\* str.split(','): the pieces between commas; always at least one piece.
RECURSIVE split_from(_, _, _)
split_from(s, i, piece) ==
  IF i > Len(s) THEN <<piece>>
  ELSE IF s[i] = "," THEN <<piece>> \o split_from(s, i + 1, <<>>)
  ELSE split_from(s, i + 1, Append(piece, s[i]))

split_no_empty(s) == IF s = <<>> THEN <<>> ELSE split_from(s, 1, <<>>)

split(s) == split_from(s, 1, <<>>)

SeqRange(q) == {q[i] : i \in 1..Len(q)}

\* ------------------------------------------------------------- exceptions
NoMac == <<>>

None == [type |-> "None", what |-> "", mac |-> NoMac, status |-> 0]

Raise(type, what, mac, status) ==
  [type |-> type, what |-> what, mac |-> mac, status |-> status]

\* Python's exception hierarchy, as far as the handlers consult it.
IsInstance(e, cls) ==
  \/ e.type = cls
  \/ cls = "ValueError" /\ e.type = "JSONDecodeError"

\* ------------------------------------------------------------- validation
\* The character class [0-9A-F:.] of the regular expression.
InClass(c) ==
  \/ Ord[c] >= Ord["0"] /\ Ord[c] <= Ord["9"]
  \/ Ord[c] >= Ord["A"] /\ Ord[c] <= Ord["F"]
  \/ c = ":"
  \/ c = "."

\* The position after the longest run of class characters starting at i.
RECURSIVE class_run(_, _)
class_run(s, i) ==
  IF i <= Len(s) /\ InClass(s[i]) THEN class_run(s, i + 1) ELSE i

\* '$' matches at the end of the string and just before a final newline.
dollar_at(s, j) == j = Len(s) + 1 \/ (j = Len(s) /\ s[j] = "\n")

\* re.fullmatch(r"^[0-9A-F:.]+$", s): one or more class characters, '$'
\* where they stop, and the match has to end where the string ends.
re_fullmatch(s) ==
  LET j == class_run(s, 1)
  IN j > 1 /\ dollar_at(s, j) /\ j = Len(s) + 1

validate_hex_only(mac) ==
  IF ~re_fullmatch(mac)
  THEN Raise("ValueError", "did not pass hex-only validation", mac, 0)
  ELSE None

validate_mac_length_range(mac) ==
  IF Len(mac) < 12 \/ Len(mac) > 17
  THEN Raise("ValueError", "did not pass length validation", mac, 0)
  ELSE None

validate_mac_length(mac) ==
  IF Len(mac) \notin {12, 17}
  THEN Raise("ValueError", "did not pass length validation", mac, 0)
  ELSE None

validate_mac_length_only(mac) == validate_mac_length(mac)

\* The checks run in list order; the first one that raises ends the call.
validate_mac(mac) ==
  LET checks == <<validate_mac_length(mac), validate_hex_only(mac)>>
      failing == {i \in 1..Len(checks) : checks[i] # None}
  IN IF failing = {} THEN None
     ELSE checks[CHOOSE i \in failing : \A k \in failing : i <= k]

validate_api_key_exists_lenient(api_key) ==
  IF ~api_key.present
  THEN Raise("ValueError", "API key was was not provided.", NoMac, 0)
  ELSE None

\* `not api_key` is true of None and of the empty string.
validate_api_key_exists(api_key) ==
  IF ~api_key.present \/ api_key.value = <<>>
  THEN Raise("ValueError", "API key was was not provided.", NoMac, 0)
  ELSE None


\* ------------------------------------------------------------ MacAddressIO
\* An object is its attribute dictionary: <<name, value>> pairs in the order
\* of first assignment.
hasattr(obj, name) == \E i \in 1..Len(obj) : obj[i][1] = name

getattr(obj, name) == obj[CHOOSE i \in 1..Len(obj) : obj[i][1] = name][2]

setattr(obj, name, value) ==
  IF hasattr(obj, name)
  THEN [i \in 1..Len(obj) |-> IF obj[i][1] = name THEN <<name, value>> ELSE obj[i]]
  ELSE Append(obj, <<name, value>>)

RECURSIVE setattr_items(_, _)
setattr_items(obj, items) ==
  IF items = <<>> THEN obj
  ELSE setattr_items(setattr(obj, str_lower(items[1][1]), items[1][2]), Tail(items))

attr_mac == <<"m", "a", "c">>

attr_companyname == <<"c", "o", "m", "p", "a", "n", "y", "n", "a", "m", "e">>

NoObject == <<>>

\* data is [isNone, items]: None, or a dict as its items in insertion order.
NoneData == [isNone |-> TRUE, items |-> <<>>]

DictData(items) == [isNone |-> FALSE, items |-> items]

\* MacAddressIO(mac, data); None has no .items().
MacAddressIO_init(mac, data) ==
  IF data.isNone
  THEN [ret |-> NoObject,
        exc |-> Raise("AttributeError", "'NoneType' object has no attribute 'items'", NoMac, 0)]
  ELSE [ret |-> setattr_items(<<<<attr_mac, mac>>>>, data.items), exc |-> None]

\* ------------------------------------------------------------ API replies
key_companyName == <<"c", "o", "m", "p", "a", "n", "y", "N", "a", "m", "e">>

key_COMPANYNAME == str_upper(key_companyName)

key_MAC == <<"M", "A", "C">>

KeyPool == {key_companyName, key_COMPANYNAME, key_MAC}

\* The value a reply gives under each key.
ValueOf(k) ==
  IF k = key_companyName THEN <<"A", "c", "m", "e">>
  ELSE IF k = key_COMPANYNAME THEN <<"O", "T", "H", "E", "R">>
  ELSE <<"0", "0", ":", "0", "0">>

\* vendorDetails objects: distinct keys, in the order of the JSON text.
KeySeqs ==
  {q \in UNION {[1..n -> KeyPool] : n \in 0..MaxKeys} :
     \A i, j \in 1..Len(q) : i # j => q[i] # q[j]}

VendorDetails == {[i \in 1..Len(q) |-> <<q[i], ValueOf(q[i])>>] : q \in KeySeqs}

\* Bodies of a reply: text that is no JSON, a JSON object without
\* vendorDetails, a JSON object with one.
NoBody == [json |-> FALSE, hasVendorDetails |-> FALSE, vendorDetails |-> <<>>]

Bodies ==
  {NoBody, [json |-> TRUE, hasVendorDetails |-> FALSE, vendorDetails |-> <<>>]}
  \cup {[json |-> TRUE, hasVendorDetails |-> TRUE, vendorDetails |-> vd] : vd \in VendorDetails}

ErrorStatuses == {404, 500}

Replies ==
  {[kind |-> "RequestException", status |-> 0, body |-> NoBody]}
  \cup {[kind |-> "response", status |-> s, body |-> NoBody] : s \in ErrorStatuses}
  \cup {[kind |-> "response", status |-> 200, body |-> b] : b \in Bodies}

\* data.get('vendorDetails')
get_vendorDetails(body) ==
  IF body.hasVendorDetails THEN DictData(body.vendorDetails) ELSE NoneData

make_request_all_fatal(mac, reply) ==
  IF reply.kind = "RequestException"
  THEN [ret |-> NoObject, exc |-> Raise("SystemExit", "RequestException", mac, 0)]
  ELSE IF reply.status = 200
  THEN IF ~reply.body.json
       THEN [ret |-> NoObject, exc |-> Raise("JSONDecodeError", "Expecting value", mac, 0)]
       ELSE MacAddressIO_init(mac, get_vendorDetails(reply.body))
  ELSE [ret |-> NoObject, exc |-> Raise("SystemExit", "RequestException", mac, 0)]

\* make_request from the reply of requests.get on: the except clause names
\* RequestException only, so what the try body itself raises passes through.
make_request(mac, reply) ==
  IF reply.kind = "RequestException"
  THEN [ret |-> NoObject, exc |-> Raise("SystemExit", "RequestException", mac, 0)]
  ELSE IF reply.status = 200
  THEN IF ~reply.body.json
       THEN [ret |-> NoObject, exc |-> Raise("JSONDecodeError", "Expecting value", mac, 0)]
       ELSE MacAddressIO_init(mac, get_vendorDetails(reply.body))
  ELSE [ret |-> NoObject,
        exc |-> Raise("ValueError", "There was a problem gathering details", mac, reply.status)]

\* ----------------------------------------------------------------- inputs
V12 == <<"A", "A", "B", "B", "C", "C", "D", "D", "E", "E", "F", "F">>

V17 == <<"A", "A", ":", "B", "B", ":", "C", "C", ":", "D", "D", ":", "E", "E", ":", "F", "F">>

\* Entries a --mac value is made of, as typed: valid ones (plain; lower
\* case after a blank; lower case and delimited), an empty one, a blank,
\* one of 11 characters, one of 12 with a character outside the class.
EntryPool ==
  {V12, <<" ">> \o str_lower(V12), str_lower(V17), <<>>, <<" ">>,
   SubSeq(V12, 1, 11), <<"G">> \o SubSeq(V12, 2, 12)}

RECURSIVE join(_)
join(entries) ==
  IF Len(entries) = 1 THEN entries[1]
  ELSE entries[1] \o <<",">> \o join(Tail(entries))

ArgvValues == {join(q) : q \in UNION {[1..n -> EntryPool] : n \in 1..MaxEntries}}

\* os.getenv('API_KEY', None): unset, set to "", set to a token.
NoKey == [present |-> FALSE, value |-> <<>>]

EnvValues ==
  {NoKey, [present |-> TRUE, value |-> <<>>], [present |-> TRUE, value |-> <<"@", "a", "t">>]}

\* ------------------------------------------------------------------ state
VARIABLES
  argv_mac,     \* the --mac value as typed
  environ,      \* the API_KEY entry of the environment
  pc,           \* where the script is
  args_mac,     \* args.mac
  API_KEY,      \* the module's API_KEY
  pending,      \* entries of set(mac_addresses.split(',')) not yet iterated
  mac,          \* the loop variable of get_mac_details
  mac_results,  \* mac_results of get_mac_details
  results,      \* results of the driver
  exc,          \* the exception raised, None when none was
  output,       \* what has been printed, in order
  requests,     \* every requests.get call made, in order
  replies,      \* every reply to them, in order
  vmac,         \* SpecValidate: the string under validation
  vdone,        \* SpecValidate: validate_mac has run
  vresult       \* SpecValidate: what validate_mac raised

vars ==
  <<argv_mac, environ, pc, args_mac, API_KEY, pending, mac, mac_results, results,
    exc, output, requests, replies, vmac, vdone, vresult>>

driver_vars ==
  <<argv_mac, environ, pc, args_mac, API_KEY, pending, mac, mac_results, results,
    exc, output, requests, replies>>

validate_vars == <<vmac, vdone, vresult>>

InitDriver ==
  /\ argv_mac \in ArgvValues
  /\ environ \in EnvValues
  /\ pc = "parse"
  /\ args_mac = <<>>
  /\ API_KEY = NoKey
  /\ pending = {}
  /\ mac = NoMac
  /\ mac_results = <<>>
  /\ results = <<>>
  /\ exc = None
  /\ output = <<>>
  /\ requests = <<>>
  /\ replies = <<>>

InitValidateIdle ==
  /\ vmac = <<>>
  /\ vdone = FALSE
  /\ vresult = None

Init == InitDriver /\ InitValidateIdle

\* ---------------------------------------------------------------- actions
\* The argument parser upper-cases the value; API_KEY comes from the
\* environment.
ParseArgs ==
  /\ pc = "parse"
  /\ args_mac' = str_upper(argv_mac)
  /\ API_KEY' = environ
  /\ pc' = "call"
  /\ UNCHANGED <<argv_mac, environ, pending, mac, mac_results, results, exc, output,
                 requests, replies>>
  /\ UNCHANGED validate_vars

\* The entries the for loop of get_mac_details iterates.
entries_of(mac_addresses) == SeqRange(split(mac_addresses))

\* get_mac_details up to the loop: the key check, the empty list, the set.
get_mac_details_enter ==
  /\ pc = "call"
  /\ LET e == validate_api_key_exists(API_KEY)
     IN IF e # None
        THEN /\ exc' = e
             /\ pc' = "except"
             /\ UNCHANGED <<pending, mac_results>>
        ELSE /\ mac_results' = <<>>
             /\ pending' = entries_of(args_mac)
             /\ pc' = "for"
             /\ UNCHANGED exc
  /\ UNCHANGED <<argv_mac, environ, args_mac, API_KEY, mac, results, output, requests, replies>>
  /\ UNCHANGED validate_vars

remaining_same(entries, entry) == entries

\* What is left to iterate once the loop has taken an entry.
remaining(entries, entry) == entries \ {entry}

\* One iteration up to the call of requests.get: any entry of the set may
\* come next; it is stripped, validated, and then requested.
for_next ==
  /\ pc = "for"
  /\ \E entry \in pending :
       LET m == strip(entry)
           e == validate_mac(m)
       IN /\ pending' = remaining(pending, entry)
          /\ mac' = m
          /\ IF e # None
             THEN /\ exc' = e
                  /\ pc' = "except"
                  /\ UNCHANGED requests
             ELSE /\ requests' =
                       Append(requests, [search |-> m, token |-> API_KEY.value, entry |-> entry])
                  /\ pc' = "get"
                  /\ UNCHANGED exc
  /\ UNCHANGED <<argv_mac, environ, args_mac, API_KEY, mac_results, results, output, replies>>
  /\ UNCHANGED validate_vars

\* requests.get answers and make_request finishes; the result is appended.
for_reply ==
  /\ pc = "get"
  /\ \E reply \in Replies :
       LET r == make_request(mac, reply)
       IN /\ replies' = Append(replies, reply)
          /\ IF r.exc # None
             THEN /\ exc' = r.exc
                  /\ pc' = "except"
                  /\ UNCHANGED mac_results
             ELSE /\ mac_results' = Append(mac_results, r.ret)
                  /\ pc' = "for"
                  /\ UNCHANGED exc
  /\ UNCHANGED <<argv_mac, environ, args_mac, API_KEY, pending, mac, results, output, requests>>
  /\ UNCHANGED validate_vars

\* The loop is exhausted: return mac_results.
get_mac_details_return ==
  /\ pc = "for"
  /\ pending = {}
  /\ results' = mac_results
  /\ pc' = "returned"
  /\ UNCHANGED <<argv_mac, environ, args_mac, API_KEY, pending, mac, mac_results, exc,
                 output, requests, replies>>
  /\ UNCHANGED validate_vars

table_rows(rs) == [i \in 1..Len(rs) |-> <<getattr(rs[i], attr_mac), getattr(rs[i], attr_companyname)>>]

\* if results: the table, one row per result, printed after the last row
\* was added; else the message.
print_results ==
  /\ pc = "returned"
  /\ IF results # <<>>
     THEN IF \E i \in 1..Len(results) : ~hasattr(results[i], attr_companyname)
          THEN /\ exc' = Raise("AttributeError", "object has no attribute 'companyname'", NoMac, 0)
               /\ pc' = "except"
               /\ UNCHANGED output
          ELSE /\ output' = Append(output, [kind |-> "table", lines |-> table_rows(results)])
               /\ pc' = "exit"
               /\ UNCHANGED exc
     ELSE /\ output' = Append(output, [kind |-> "text", lines |-> <<"No results found.">>])
          /\ pc' = "exit"
          /\ UNCHANGED exc
  /\ UNCHANGED <<argv_mac, environ, args_mac, API_KEY, pending, mac, mac_results, results,
                 requests, replies>>
  /\ UNCHANGED validate_vars

\* except ValueError as e: print(e)
except_ValueError ==
  /\ pc = "except"
  /\ IsInstance(exc, "ValueError")
  /\ output' = Append(output, [kind |-> "ValueError", lines |-> <<exc.what>>])
  /\ pc' = "exit"
  /\ UNCHANGED <<argv_mac, environ, args_mac, API_KEY, pending, mac, mac_results, results,
                 exc, requests, replies>>
  /\ UNCHANGED validate_vars

\* except SystemExit as e: two prints
except_SystemExit ==
  /\ pc = "except"
  /\ ~IsInstance(exc, "ValueError")
  /\ IsInstance(exc, "SystemExit")
  /\ output' = Append(output, [kind |-> "SystemExit",
                               lines |-> <<"Exception caught while making requests", exc.what>>])
  /\ pc' = "exit"
  /\ UNCHANGED <<argv_mac, environ, args_mac, API_KEY, pending, mac, mac_results, results,
                 exc, requests, replies>>
  /\ UNCHANGED validate_vars

\* No except clause matches: the interpreter ends the script with a traceback.
uncaught ==
  /\ pc = "except"
  /\ ~IsInstance(exc, "ValueError")
  /\ ~IsInstance(exc, "SystemExit")
  /\ output' = Append(output, [kind |-> "Traceback", lines |-> <<exc.what>>])
  /\ pc' = "crashed"
  /\ UNCHANGED <<argv_mac, environ, args_mac, API_KEY, pending, mac, mac_results, results,
                 exc, requests, replies>>
  /\ UNCHANGED validate_vars

Next ==
  \/ ParseArgs
  \/ get_mac_details_enter
  \/ for_next
  \/ for_reply
  \/ get_mac_details_return
  \/ print_results
  \/ except_ValueError
  \/ except_SystemExit
  \/ uncaught

Spec == Init /\ [][Next]_vars

\* ------------------------------------------------- validate_mac on its own
BaseChars == {"0", "A", "F", ":", "a"}

\* Strings of one repeated character with at most one position changed.
ValidateInputs ==
  {[i \in 1..n |-> IF i = p THEN d ELSE c] :
     n \in 0..MaxLen, c \in BaseChars, p \in 0..MaxLen, d \in Alphabet}

InitDriverIdle ==
  /\ argv_mac = <<>>
  /\ environ = NoKey
  /\ pc = "idle"
  /\ args_mac = <<>>
  /\ API_KEY = NoKey
  /\ pending = {}
  /\ mac = NoMac
  /\ mac_results = <<>>
  /\ results = <<>>
  /\ exc = None
  /\ output = <<>>
  /\ requests = <<>>
  /\ replies = <<>>

InitValidate ==
  /\ InitDriverIdle
  /\ vmac \in ValidateInputs
  /\ vdone = FALSE
  /\ vresult = None

CallValidate ==
  /\ ~vdone
  /\ vresult' = validate_mac(vmac)
  /\ vdone' = TRUE
  /\ UNCHANGED vmac
  /\ UNCHANGED driver_vars

SpecValidate == InitValidate /\ [][CallValidate]_vars


\* ================================================================= claims
\* The characters the specification allows in a MAC address.
SpecCharset ==
  {"0", "1", "2", "3", "4", "5", "6", "7", "8", "9",
   "A", "B", "C", "D", "E", "F", ":", "."}

\* A well-formed MAC address, in the specification's words.
WellFormed(m) == Len(m) \in {12, 17} /\ \A i \in 1..Len(m) : m[i] \in SpecCharset

\* The comma separated entries of a --mac value, as a set: the stretches
\* between neighbouring cuts, the cuts being the commas and the two ends.
EntriesBetweenCommas(s) ==
  LET cuts == {i \in 1..Len(s) : s[i] = ","} \cup {0, Len(s) + 1}
      neighbours == {q \in cuts \X cuts :
                      q[1] < q[2] /\ ~\E c \in cuts : q[1] < c /\ c < q[2]}
  IN {SubSeq(s, q[1] + 1, q[2] - 1) : q \in neighbours}

Truthy(key) == key.present /\ key.value # <<>>

NoTable == \A i \in 1..Len(output) : output[i].kind # "table"

LastReply == replies[Len(replies)]

\* C1: validate_mac succeeds exactly when the string has 12 or 17
\* characters, all in [0-9A-F:.]; on every other string it raises ValueError.
C1_ValidateExact ==
  vdone =>
    /\ (vresult = None) <=> WellFormed(vmac)
    /\ vresult # None => vresult.type = "ValueError"

\* C1 witness: a delimited 17-character address has been accepted.
C1_Witness ==
  /\ vdone
  /\ vresult = None
  /\ Len(vmac) = 17
  /\ \E i \in 1..Len(vmac) : vmac[i] = ":"

\* C2 as stated: no MAC value is sent to the API twice in one run.
C2_NoValueSentTwice ==
  \A i, j \in 1..Len(requests) : i # j => requests[i].search # requests[j].search

\* C3: with an empty or absent API key, or with the empty MAC list,
\* get_mac_details ends in a ValueError and no request has been issued.
C3_FailsBeforeAnyRequest ==
  (pc \notin {"parse", "call"} /\ (~Truthy(environ) \/ argv_mac = <<>>)) =>
    /\ requests = <<>>
    /\ pc \in {"for", "except", "exit"}
    /\ pc = "for" => pending = {<<>>}
    /\ pc \in {"except", "exit"} => exc.type = "ValueError"

\* C3 witness: the empty list with a key present has failed.
C3_Witness ==
  /\ pc = "except"
  /\ argv_mac = <<>>
  /\ Truthy(environ)
  /\ exc.type = "ValueError"

\* An entry of the --mac value fails validation.
SomeEntryMalformed == \E e \in EntriesBetweenCommas(args_mac) : ~WellFormed(strip(e))

AllRepliesOk == \A i \in 1..Len(replies) : replies[i].kind = "response" /\ replies[i].status = 200

\* C4 as stated: a run over a list with a malformed entry, every request of
\* which was answered with HTTP 200, ends with the ValueError message alone.
C4_MalformedEntryEndsInValueError ==
  (pc \in {"exit", "crashed"} /\ Truthy(API_KEY) /\ SomeEntryMalformed /\ AllRepliesOk) =>
    /\ pc = "exit"
    /\ IsInstance(exc, "ValueError")
    /\ results = <<>>
    /\ Len(output) = 1
    /\ output[1].kind = "ValueError"

\* C5 as stated: on return there is one result per request, its mac is the
\* MAC sent, and every vendorDetails key K is readable as lower(K) with the
\* API's value.
C5_ResultsMirrorReplies ==
  pc = "returned" =>
    /\ Len(results) = Len(requests)
    /\ \A i \in 1..Len(results) :
         /\ hasattr(results[i], attr_mac)
         /\ getattr(results[i], attr_mac) = requests[i].search
         /\ \A k \in 1..Len(replies[i].body.vendorDetails) :
              LET item == replies[i].body.vendorDetails[k]
              IN /\ hasattr(results[i], str_lower(item[1]))
                 /\ getattr(results[i], str_lower(item[1])) = item[2]

C7_RequestsAreValidated ==
  \A i \in 1..Len(requests) :
    /\ requests[i].token # <<>>
    /\ WellFormed(requests[i].search)

\* C7 witness: two requests were issued for a two-entry list.
C7_Witness == Len(requests) = 2 /\ pc = "returned"

C8_State ==
  /\ Len(requests) = Len(replies) + (IF pc = "get" THEN 1 ELSE 0)
  /\ \A i, j \in 1..Len(requests) : i # j => requests[i].entry # requests[j].entry
  /\ Len(requests) <= Cardinality(EntriesBetweenCommas(args_mac))

C8_Step ==
  /\ exc # None => requests' = requests
  /\ requests' # requests => Len(requests) = Len(replies) /\ Len(requests') = Len(requests) + 1

\* C8: requests go out one at a time, each distinct entry at most once,
\* never more than there are distinct entries, and none after a failure.
C8_NoRetryNoContinuation == [][(pc = "parse" => C8_State) /\ C8_State' /\ C8_Step]_vars

\* C8 witness: the second of two requests failed and the script has ended.
C8_Witness ==
  /\ pc = "exit"
  /\ Len(requests) = 2
  /\ Len(replies) = 2
  /\ exc.type = "SystemExit"

\* C9: get_mac_details never returns an empty list, and the driver never
\* prints "No results found.".
C9_NeverZeroResults ==
  /\ pc = "returned" => results # <<>>
  /\ \A i \in 1..Len(output) : output[i].lines # <<"No results found.">>

\* C9 witness: get_mac_details has returned, with two results.
C9_Witness == pc = "returned" /\ Len(results) = 2

\* C10 as stated: every run ends with a complete table or with one message
\* of the ValueError or SystemExit handler; no error goes uncaught.
C10_EveryRunHandled ==
  /\ pc # "crashed"
  /\ pc = "exit" =>
       /\ Len(output) = 1
       /\ \/ output[1].kind = "table" /\ Len(output[1].lines) = Len(results)
          \/ output[1].kind \in {"ValueError", "SystemExit"}

=============================================================================
